---- MODULE Spec2Model ----
(***************************************************************************)
(* A model of the glog logger registry: BaseLogger, its per-logger handler *)
(* chain (sink + FocusFilterHandler) and the root-owned registry map and   *)
(* focus state guarded by root.mu.  Callers run on several goroutines; an  *)
(* operation that takes root.mu is split at the lock acquisition, so that  *)
(* unlocked reads and writes of other goroutines interleave with it.       *)
(* Error's handling of its arguments (findError, the derived attributes)   *)
(* is a function of the arguments alone and has a specification of its     *)
(* own, SpecError, that applies it to every bounded argument list.         *)
(***************************************************************************)
EXTENDS Integers, Sequences, FiniteSets, TLC

\* ------------------------------------------------------------------ bounds

\* Logger instances that can be constructed (the root included).
MaxInst == 4
\* Operations started in one run.
MaxOps == 3
\* Arguments of one call of Error.
MaxArgs == 3

\* ------------------------------------------------- constants of the source

LevelTrace == -8
LevelDebug == -4
LevelInfo  == 0
LevelWarn  == 4
LevelError == 8
LevelFatal == 20

\* level names are strings; a string is modelled as its sequence of characters
\* so that strings.ToUpper is computed, not assumed
Trace == <<"T", "R", "A", "C", "E">>
Debug == <<"D", "E", "B", "U", "G">>
Info  == <<"I", "N", "F", "O">>
Warn  == <<"W", "A", "R", "N">>
Error == <<"E", "R", "R", "O", "R">>
Fatal == <<"F", "A", "T", "A", "L">>

DefaultLogLevel == Info

LoggerTypeConsole == "console"
LoggerTypePretty  == "pretty"
LoggerTypeJSON    == "json"

\* ------------------------------------------------------------ input domains

Threads  == {"t1", "t2"}
NoThread == "none"

Inst == 0 .. (MaxInst - 1)

\* logger names handed to WithName, GetLogger and Focus ("" is the unnamed root)
Names     == {"", "a", "b"}
RootNames == {"", "a"}

\* the name lists handed to Focus: none, one name, another, and two names of
\* which one is the empty name
FocusInputs == {{}, {"a"}, {"b"}, {"", "a"}}

\* level strings handed to WithLevel
warn  == <<"w", "a", "r", "n">>
BOGUS == <<"B", "O", "G", "U", "S">>
LevelInputs == {Info, warn, BOGUS}

\* the options handed to NewLogger for the root: WithName(n), WithLevel(l)
RootLevels == {DefaultLogLevel}
RootTypes  == {""}

\* format selectors handed to WithLoggerType ("" is the zero value NewLogger leaves)
TypeInputs == {"", LoggerTypePretty}

\* the emit operations of BaseLogger
EmitKinds == {"Trace", "Debug", "Info", "Warn", "Error", "Fatal"}

VARIABLES
    nInst,       \* number of BaseLogger instances constructed; they are 0 .. nInst-1
    name,        \* BaseLogger.name
    level,       \* BaseLogger.level
    loggerType,  \* BaseLogger.loggerType
    addSource,   \* BaseLogger.addSource
    root,        \* BaseLogger.root
    loggers,     \* BaseLogger.loggers, a map name -> instance
    focused,     \* BaseLogger.focused
    focusMap,    \* BaseLogger.focusMap, the set of keys mapped to true
    logger,      \* BaseLogger.logger: the handler chain of the *slog.Logger
    mu,          \* BaseLogger.mu: the goroutine holding it exclusively
    pc,          \* each goroutine's position
    op,          \* each goroutine's operation in progress
    last,        \* the call that has just returned, if the last step was a return
    returned,    \* for each name, the instances GetLogger has returned for it
    exited,      \* os.Exit has been called
    fhist,       \* history: the last two Focus and Unfocus calls that have returned
    nOps,        \* operations started
    given,       \* history: for each logger, the attributes With has been given
    args,        \* the arguments of a call (of Error, of argsToAttrSlice) looked at on its own
    forwarded,   \* what that call handed to c.logger.Log
    converting   \* a run of argsToAttrSlice on args: the arguments left, the attributes so far

\* the variables of the calls that are looked at on their own
callVars == <<args, forwarded, converting>>

vars == <<nInst, name, level, loggerType, addSource, root, loggers, focused,
          focusMap, logger, mu, pc, op, last, returned, exited, fhist, nOps,
          given, args, forwarded, converting>>

Live == 0 .. (nInst - 1)

\* ------------------------------------------------------------ level table

LowerLetters == <<"a", "b", "c", "d", "e", "f", "g", "h", "i", "j", "k", "l", "m",
                  "n", "o", "p", "q", "r", "s", "t", "u", "v", "w", "x", "y", "z">>
UpperLetters == <<"A", "B", "C", "D", "E", "F", "G", "H", "I", "J", "K", "L", "M",
                  "N", "O", "P", "Q", "R", "S", "T", "U", "V", "W", "X", "Y", "Z">>

\* the upper-case letter of each lower-case letter
UpperTable ==
    [ch \in {LowerLetters[i] : i \in DOMAIN LowerLetters} |->
        UpperLetters[CHOOSE i \in DOMAIN LowerLetters : LowerLetters[i] = ch]]

UpperChar(ch) == IF ch \in DOMAIN UpperTable THEN UpperTable[ch] ELSE ch

\* strings.ToUpper
ToUpper(s) == [i \in DOMAIN s |-> UpperChar(s[i])]

\* getLevel with a default case that returns the error rank
getLevel_DefaultError(l) ==
    LET u == ToUpper(l) IN
    CASE u = <<"E", "R", "R", "O", "R">> -> LevelError
      [] u = <<"W", "A", "R", "N">>      -> LevelWarn
      [] u = <<"I", "N", "F", "O">>      -> LevelInfo
      [] u = <<"D", "E", "B", "U", "G">> -> LevelDebug
      [] u = <<"T", "R", "A", "C", "E">> -> LevelTrace
      [] OTHER                           -> LevelError

\* getLevel: the switch on strings.ToUpper(l)
getLevel(l) ==
    LET u == ToUpper(l) IN
    CASE u = <<"E", "R", "R", "O", "R">> -> LevelError
      [] u = <<"W", "A", "R", "N">>      -> LevelWarn
      [] u = <<"I", "N", "F", "O">>      -> LevelInfo
      [] u = <<"D", "E", "B", "U", "G">> -> LevelDebug
      [] u = <<"T", "R", "A", "C", "E">> -> LevelTrace
      [] OTHER                           -> LevelInfo

\* the rank each emit operation hands to slog.Logger.Log; Fatal calls Error
EmitRank(kind) ==
    CASE kind = "Trace" -> LevelTrace
      [] kind = "Debug" -> LevelDebug
      [] kind = "Info"  -> LevelInfo
      [] kind = "Warn"  -> LevelWarn
      [] kind = "Error" -> LevelError
      [] kind = "Fatal" -> LevelError

\* ------------------------------------------------------------ handler chain

\* the switch on c.loggerType in configureLogger: which sink is constructed
NewSinkKind(ty) ==
    CASE ty = LoggerTypeConsole -> "text"
      [] ty = LoggerTypePretty  -> "color"
      [] ty = LoggerTypeJSON    -> "json"
      [] OTHER                  -> "json"

\* NewFocusFilterHandler(handler, logger): a sink with its HandlerOptions and
\* attributes, wrapped by the filter that consults `owner`
NewFocusFilterHandler(kind, lvl, src, owner) ==
    [kind |-> kind, lvl |-> lvl, src |-> src, attrs |-> <<>>, owner |-> owner]

\* WithAttrs returning the handler without the attributes
FilterWithAttrs_Drop(h, as) == h

\* FocusFilterHandler.WithAttrs: a new filter, same logger, around inner.WithAttrs
FilterWithAttrs(h, as) == [h EXCEPT !.attrs = h.attrs \o as]

\* configureLogger, as a function of the fields it reads
BuildChain(c, nm, lv, ty, src) ==
    LET h == NewFocusFilterHandler(NewSinkKind(ty), getLevel(lv), src, c) IN
    IF nm # "" THEN FilterWithAttrs(h, << <<"logger", nm>> >>) ELSE h

configureLogger(c) == BuildChain(c, name[c], level[c], loggerType[c], addSource[c])

\* Enabled comparing with > instead of >=
SinkEnabled_Strict(h, rank) == rank > h.lvl

\* Enabled of the slog text/JSON handlers and of ColorConsoleHandler
SinkEnabled(h, rank) == rank >= h.lvl

\* ------------------------------------------------------------ focus state

getRoot(c) == root[c]

\* isFocused reading the receiver's own focus fields, not the root's
isFocused_OwnFields(c) ==
    IF ~focused[c] THEN TRUE ELSE name[c] \in focusMap[c]

\* the body of isFocused, read under root.mu.RLock
isFocused(c) ==
    LET r == getRoot(c) IN
    IF ~focused[r] THEN TRUE ELSE name[c] \in focusMap[r]

\* a mutex that never excludes
MuFree_NoExclusion(r) == TRUE

\* root.mu can be taken (Lock, or RLock: no reader holds it across a step)
MuFree(r) == mu[r] = NoThread

\* a chain rebuild that takes the lock of the registry again
RebuildLocks_Root(r) == {r}

\* the locks a chain rebuild (configureLogger) of a logger of registry r takes:
\* none; sync.RWMutex is not reentrant, so a rebuild made while holding root.mu
\* could go on only if every lock it takes were free
RebuildLocks(r) == {}

CanRebuild(r) == \A m \in RebuildLocks(r) : MuFree(m)

\* Focus and Unfocus writing the receiver's fields, not the root's
FocusTarget_Receiver(c) == c

\* the logger whose focus fields Focus and Unfocus write
FocusTarget(c) == getRoot(c)

\* Focus adding its arguments to the map it finds
FocusNames_Additive(r, names) == focusMap[r] \cup names

\* the focusMap Focus builds from its arguments
FocusNames(r, names) == names

\* the loggers Focus and Unfocus reconfigure: every registered one, and the root
Registered(r) == {loggers[r][n] : n \in DOMAIN loggers[r]}

Rebuilt(r) == Registered(r) \cup {r}

\* ------------------------------------------------------------ construction

\* the logger NewLogger constructs first: the root, owner of the registry
TheRoot == 0

\* an operation in progress: its receiver c and arguments, the result of
\* GetLogger's lookup, the chain an emit read from c.logger, and (history) the
\* rank c.level resolved to when the emit was called
NoOp == [kind |-> "none", c |-> 0, name |-> "", found |-> {},
         h |-> NewFocusFilterHandler("json", LevelInfo, TRUE, 0), min |-> LevelInfo,
         given |-> {}]

\* the call that has just returned (Focus and Unfocus are kept in fhist
\* instead): the operation, its receiver c and what came of it.  For
\* GetLogger, out holds the instance returned.  For an emit, status says
\* whether the record was handed to the sink ("written") or dropped, attrs are
\* the attributes of the written record, lvl is the minimum rank of the chain
\* used, min the rank c.level resolved to and given the attributes With had
\* been given when the emit was called, and handle is what
\* FocusFilterHandler.Handle did, if it was called.
NoCall == [kind |-> "none", c |-> 0, status |-> "none", out |-> {},
           attrs |-> <<>>, lvl |-> LevelInfo, min |-> LevelInfo, given |-> {},
           handle |-> [called |-> FALSE, ret |-> "nil", sunk |-> 0, res |-> "none"]]

Returns(kind, c, status) == [NoCall EXCEPT !.kind = kind, !.c = c, !.status = status]

\* history of the focus calls: whether the receiver of a call was a child, its
\* arguments, and the number of loggers that existed when it returned
Remember(h, e) == IF Len(h) < 2 THEN Append(h, e) ELSE <<h[2], e>>

\* NewLogger(options...) for the root of a registry: the options set name,
\* level and loggerType before configureLogger; c.root is nil and becomes c.
NewLogger(nm, lv, ty) ==
    /\ nInst = 1
    /\ name = [i \in Inst |-> IF i = TheRoot THEN nm ELSE ""]
    /\ level = [i \in Inst |-> IF i = TheRoot THEN lv ELSE DefaultLogLevel]
    /\ loggerType = [i \in Inst |-> IF i = TheRoot THEN ty ELSE ""]
    /\ addSource = [i \in Inst |-> TRUE]
    /\ root = [i \in Inst |-> i]
    /\ loggers = [i \in Inst |-> <<>>]
    /\ focused = [i \in Inst |-> FALSE]
    /\ focusMap = [i \in Inst |-> {}]
    /\ logger = [i \in Inst |-> IF i = TheRoot THEN BuildChain(i, nm, lv, ty, TRUE)
                                ELSE BuildChain(i, "", DefaultLogLevel, "", TRUE)]
    /\ mu = [i \in Inst |-> NoThread]
    /\ pc = [t \in Threads |-> "idle"]
    /\ op = [t \in Threads |-> NoOp]
    /\ last = NoCall
    /\ returned = [n \in Names |-> {}]
    /\ exited = FALSE
    /\ fhist = <<>>
    /\ nOps = 0
    /\ given = [i \in Inst |-> {}]

\* no call of Error has been made
NotCalled == [called |-> FALSE, dargs |-> <<>>]

\* argsToAttrSlice is not running
NotConverting == [on |-> FALSE, rest |-> <<>>, attrs |-> <<>>]

Init ==
    /\ \E nm \in RootNames, lv \in RootLevels, ty \in RootTypes : NewLogger(nm, lv, ty)
    /\ args = <<>>
    /\ forwarded = NotCalled
    /\ converting = NotConverting

\* Callers are goroutines; an idle goroutine carries no state, so idle ones are
\* interchangeable and the second one is used only while the first is busy.
Available(t) ==
    /\ pc[t] = "idle"
    /\ t = "t2" => pc["t1"] # "idle"

\* a goroutine may start an operation on logger c
CanStart(t, c) ==
    /\ ~exited
    /\ Available(t)
    /\ c \in Live
    /\ nOps < MaxOps

\* GetLogger calls whose lookup missed and that have not yet constructed
Constructing == {u \in Threads : pc[u] = "getlogger" /\ op[u].found = {}}

\* ------------------------------------------------------------ GetLogger

\* a lookup that never finds the name
Lookup_Miss(c, n) == {}

\* the lookup c.root.loggers[name]
Lookup(c, n) ==
    IF n \in DOMAIN loggers[root[c]] THEN {loggers[root[c]][n]} ELSE {}

\* a new logger copying the root's settings, not the caller's
InheritFrom_Root(c) == getRoot(c)

\* the logger whose level, addSource and loggerType a new logger copies
InheritFrom(c) == c

\* root.mu.Lock(), then the lookup
GetLoggerLock(t, c, n) ==
    /\ CanStart(t, c)
    /\ MuFree(getRoot(c))
    /\ Lookup(c, n) # {} \/ nInst + Cardinality(Constructing) < MaxInst
    /\ mu' = [mu EXCEPT ![getRoot(c)] = t]
    /\ pc' = [pc EXCEPT ![t] = "getlogger"]
    /\ op' = [op EXCEPT ![t] = [NoOp EXCEPT !.kind = "GetLogger", !.c = c,
                                            !.name = n, !.found = Lookup(c, n)]]
    /\ nOps' = nOps + 1
    /\ last' = NoCall
    /\ UNCHANGED <<nInst, name, level, loggerType, addSource, root, loggers,
                   focused, focusMap, logger, returned, exited, fhist>>
    /\ UNCHANGED callVars
    /\ UNCHANGED given

\* the rest of GetLogger: return the instance found, or NewLogger, the copied
\* settings, configureLogger and the insertion; then the deferred Unlock
GetLoggerBody(t) ==
    /\ ~exited
    /\ pc[t] = "getlogger"
    /\ LET c   == op[t].c
           n   == op[t].name
           r   == getRoot(c)
           out == nInst
           src == InheritFrom(c)
       IN  IF op[t].found # {}
           THEN /\ returned' = [returned EXCEPT ![n] = @ \cup op[t].found]
                /\ last' = [Returns("GetLogger", c, "found") EXCEPT !.out = op[t].found]
                /\ UNCHANGED <<nInst, name, level, loggerType, addSource, root,
                               loggers, focused, focusMap, logger>>
           ELSE /\ CanRebuild(r)
                /\ nInst' = nInst + 1
                /\ root' = [root EXCEPT ![out] = r]
                /\ name' = [name EXCEPT ![out] = n]
                /\ level' = [level EXCEPT ![out] = level[src]]
                /\ addSource' = [addSource EXCEPT ![out] = addSource[src]]
                /\ loggerType' = [loggerType EXCEPT ![out] = loggerType[src]]
                /\ loggers' = [loggers EXCEPT ![out] = <<>>,
                                              ![root[c]] = (n :> out) @@ @]
                /\ focused' = [focused EXCEPT ![out] = FALSE]
                /\ focusMap' = [focusMap EXCEPT ![out] = {}]
                /\ logger' = [logger EXCEPT ![out] =
                                 BuildChain(out, n, level[src], loggerType[src],
                                            addSource[src])]
                /\ returned' = [returned EXCEPT ![n] = @ \cup {out}]
                /\ last' = [Returns("GetLogger", c, "created") EXCEPT !.out = {out}]
    /\ mu' = [mu EXCEPT ![getRoot(op[t].c)] = NoThread]
    /\ pc' = [pc EXCEPT ![t] = "idle"]
    /\ op' = [op EXCEPT ![t] = NoOp]
    /\ UNCHANGED <<exited, fhist, nOps>>
    /\ UNCHANGED callVars
    /\ UNCHANGED given

\* ------------------------------------------------------------ Focus, Unfocus

\* root.mu.Lock() of Focus
FocusLock(t, c) ==
    /\ CanStart(t, c)
    /\ MuFree(getRoot(c))
    /\ mu' = [mu EXCEPT ![getRoot(c)] = t]
    /\ pc' = [pc EXCEPT ![t] = "focus"]
    /\ op' = [op EXCEPT ![t] = [NoOp EXCEPT !.kind = "Focus", !.c = c]]
    /\ nOps' = nOps + 1
    /\ last' = NoCall
    /\ UNCHANGED <<nInst, name, level, loggerType, addSource, root, loggers,
                   focused, focusMap, logger, returned, exited, fhist>>
    /\ UNCHANGED callVars
    /\ UNCHANGED given

\* the body of Focus, where its arguments are first read, and the deferred Unlock
FocusBody(t, names) ==
    /\ ~exited
    /\ pc[t] = "focus"
    /\ CanRebuild(getRoot(op[t].c))
    /\ LET r == getRoot(op[t].c)
           f == FocusTarget(op[t].c)
       IN  /\ focused' = [focused EXCEPT ![f] = TRUE]
           /\ focusMap' = [focusMap EXCEPT ![f] = FocusNames(f, names)]
           /\ logger' = [i \in Inst |-> IF i \in Rebuilt(r) THEN configureLogger(i)
                                        ELSE logger[i]]
           /\ mu' = [mu EXCEPT ![r] = NoThread]
    /\ fhist' = Remember(fhist, [kind |-> "Focus", child |-> op[t].c # TheRoot,
                                  names |-> names, n |-> nInst])
    /\ last' = NoCall
    /\ pc' = [pc EXCEPT ![t] = "idle"]
    /\ op' = [op EXCEPT ![t] = NoOp]
    /\ UNCHANGED <<nInst, name, level, loggerType, addSource, root, loggers,
                   returned, exited, nOps>>
    /\ UNCHANGED callVars
    /\ UNCHANGED given

\* root.mu.Lock() of Unfocus
UnfocusLock(t, c) ==
    /\ CanStart(t, c)
    /\ MuFree(getRoot(c))
    /\ mu' = [mu EXCEPT ![getRoot(c)] = t]
    /\ pc' = [pc EXCEPT ![t] = "unfocus"]
    /\ op' = [op EXCEPT ![t] = [NoOp EXCEPT !.kind = "Unfocus", !.c = c]]
    /\ nOps' = nOps + 1
    /\ last' = NoCall
    /\ UNCHANGED <<nInst, name, level, loggerType, addSource, root, loggers,
                   focused, focusMap, logger, returned, exited, fhist>>
    /\ UNCHANGED callVars
    /\ UNCHANGED given

\* Unfocus clearing the map and leaving the flag
UnfocusState_KeepsFlag(r) == <<focused[r], {}>>

\* Unfocus clearing the flag and leaving the map
UnfocusState_KeepsMap(r) == <<FALSE, focusMap[r]>>

\* the focus fields Unfocus leaves: <<focused, focusMap>>
UnfocusState(r) == <<FALSE, {}>>

\* the body of Unfocus and the deferred Unlock
UnfocusBody(t) ==
    /\ ~exited
    /\ pc[t] = "unfocus"
    /\ CanRebuild(getRoot(op[t].c))
    /\ LET r == getRoot(op[t].c)
           f == FocusTarget(op[t].c)
       IN  /\ focused' = [focused EXCEPT ![f] = UnfocusState(f)[1]]
           /\ focusMap' = [focusMap EXCEPT ![f] = UnfocusState(f)[2]]
           /\ logger' = [i \in Inst |-> IF i \in Rebuilt(r) THEN configureLogger(i)
                                        ELSE logger[i]]
           /\ mu' = [mu EXCEPT ![r] = NoThread]
    /\ fhist' = Remember(fhist, [kind |-> "Unfocus", child |-> op[t].c # TheRoot,
                                  names |-> {}, n |-> nInst])
    /\ last' = NoCall
    /\ pc' = [pc EXCEPT ![t] = "idle"]
    /\ op' = [op EXCEPT ![t] = NoOp]
    /\ UNCHANGED <<nInst, name, level, loggerType, addSource, root, loggers,
                   returned, exited, nOps>>
    /\ UNCHANGED callVars
    /\ UNCHANGED given

\* ------------------------------------------------- WithLevel, WithLoggerType

\* a setting that cascades from the root to the registered loggers
Receiver_Cascade(c) == IF c = getRoot(c) THEN {c} \cup Registered(c) ELSE {c}

\* the loggers whose setting WithLevel and WithLoggerType assign and reconfigure
Receiver(c) == {c}

\* WithLevel: c.level = level; c.configureLogger().  It takes no lock.
WithLevel(t, c, l) ==
    /\ CanStart(t, c)
    /\ level' = [i \in Inst |-> IF i \in Receiver(c) THEN l ELSE level[i]]
    /\ logger' = [i \in Inst |->
                    IF i \in Receiver(c)
                    THEN BuildChain(i, name[i], l, loggerType[i], addSource[i])
                    ELSE logger[i]]
    /\ nOps' = nOps + 1
    /\ last' = Returns("WithLevel", c, "done")
    /\ UNCHANGED <<nInst, name, loggerType, addSource, root, loggers, focused,
                   focusMap, mu, pc, op, returned, exited, fhist>>
    /\ UNCHANGED callVars
    /\ UNCHANGED given

\* WithLoggerType: c.loggerType = loggerType; c.configureLogger().  No lock.
WithLoggerType(t, c, ty) ==
    /\ CanStart(t, c)
    /\ loggerType' = [i \in Inst |-> IF i \in Receiver(c) THEN ty ELSE loggerType[i]]
    /\ logger' = [i \in Inst |->
                    IF i \in Receiver(c)
                    THEN BuildChain(i, name[i], level[i], ty, addSource[i])
                    ELSE logger[i]]
    /\ nOps' = nOps + 1
    /\ last' = Returns("WithLoggerType", c, "done")
    /\ UNCHANGED <<nInst, name, level, addSource, root, loggers, focused,
                   focusMap, mu, pc, op, returned, exited, fhist>>
    /\ UNCHANGED callVars
    /\ UNCHANGED given

\* ------------------------------------------------------------ emit

\* Fatal calling os.Exit only after a record that was written
Exits_OnlyWritten(kind, written) == kind = "Fatal" /\ written

\* whether the operation calls os.Exit(1) after its delivery attempt: Fatal does
Exits(kind, written) == kind = "Fatal"

\* what the sink's Handle can return: nil, or the error of a failed write
SinkResults == {"nil", "write error"}

\* FocusFilterHandler.Handle was not called
NotHandled == [called |-> FALSE, ret |-> "nil", sunk |-> 0, res |-> "none"]

\* Handle returning nil whatever the sink's Handle returned
FilterHandle_Swallow(h, res) ==
    IF ~isFocused(h.owner)
    THEN [called |-> TRUE, ret |-> "nil", sunk |-> 0, res |-> "none"]
    ELSE [called |-> TRUE, ret |-> "nil", sunk |-> 1, res |-> res]

\* FocusFilterHandler.Handle, where res is what the sink's Handle returns if it
\* is called: the value returned (ret) and the calls of the sink's Handle (sunk)
FilterHandle(h, res) ==
    IF ~isFocused(h.owner)
    THEN [called |-> TRUE, ret |-> "nil", sunk |-> 0, res |-> "none"]
    ELSE [called |-> TRUE, ret |-> res, sunk |-> 1, res |-> res]

\* Enabled asking only the focus predicate
FilterEnabled_FocusOnly(h, rank) == isFocused(h.owner)

\* FocusFilterHandler.Enabled
FilterEnabled(h, rank) ==
    IF ~SinkEnabled(h, rank) THEN FALSE ELSE isFocused(h.owner)

\* the emit returns: the record was handed to the sink's Handle ("written") or
\* was dropped; Fatal then calls os.Exit(1)
Complete(t, kind, hr) ==
    /\ last' = [Returns(kind, op[t].c, IF hr.sunk > 0 THEN "written" ELSE "dropped")
                  EXCEPT !.attrs = IF hr.sunk > 0 THEN op[t].h.attrs ELSE <<>>,
                         !.handle = hr,
                         !.lvl = op[t].h.lvl,
                         !.min = op[t].min,
                         !.given = op[t].given]
    /\ exited' = Exits(kind, hr.sunk > 0)
    /\ pc' = [pc EXCEPT ![t] = "idle"]
    /\ op' = [op EXCEPT ![t] = NoOp]

\* Trace/Debug/Info/Warn/Error/Fatal: c.logger is read, without a lock, and
\* its Log method called
EmitStart(t, c) ==
    /\ CanStart(t, c)
    /\ pc' = [pc EXCEPT ![t] = "enabled"]
    /\ op' = [op EXCEPT ![t] = [NoOp EXCEPT !.kind = "emit", !.c = c, !.h = logger[c],
                                            !.min = getLevel(level[c]),
                                            !.given = given[c]]]
    /\ nOps' = nOps + 1
    /\ last' = NoCall
    /\ UNCHANGED <<nInst, name, level, loggerType, addSource, root, loggers,
                   focused, focusMap, logger, mu, returned, exited, fhist>>
    /\ UNCHANGED callVars
    /\ UNCHANGED given

\* slog.Logger.Log, with the rank of the operation called (kind), asks
\* FocusFilterHandler.Enabled: the sink's Enabled, then isFocused under
\* root.mu.RLock
EmitEnabled(t, kind) ==
    /\ ~exited
    /\ pc[t] = "enabled"
    /\ LET h == op[t].h IN
       /\ SinkEnabled(h, EmitRank(kind)) => MuFree(getRoot(h.owner))
       /\ IF FilterEnabled(h, EmitRank(kind))
          THEN /\ pc' = [pc EXCEPT ![t] = "handle"]
               /\ op' = [op EXCEPT ![t].kind = kind]
               /\ last' = NoCall
               /\ UNCHANGED exited
          ELSE Complete(t, kind, NotHandled)
    /\ UNCHANGED <<nInst, name, level, loggerType, addSource, root, loggers,
                   focused, focusMap, logger, mu, returned, fhist, nOps>>
    /\ UNCHANGED callVars
    /\ UNCHANGED given

\* FocusFilterHandler.Handle: isFocused under root.mu.RLock, then the sink's
\* Handle, which writes the record or fails
EmitHandle(t) ==
    /\ ~exited
    /\ pc[t] = "handle"
    /\ MuFree(getRoot(op[t].h.owner))
    /\ \E res \in SinkResults : Complete(t, op[t].kind, FilterHandle(op[t].h, res))
    /\ UNCHANGED <<nInst, name, level, loggerType, addSource, root, loggers,
                   focused, focusMap, logger, mu, returned, fhist, nOps>>
    /\ UNCHANGED callVars
    /\ UNCHANGED given

\* ------------------------------------------------------------ Error

\* A value handed in args ...any: its dynamic type, and by type its string, its
\* chain of causes (an error and what errors.Unwrap yields from it, in order),
\* its code (an error that implements coder, or an int).  A slog.Attr has its
\* key in str and its value's type in `of`.
Value(type, str, val, code, of) ==
    [type |-> type, str |-> str, val |-> val, code |-> code, of |-> of]

StringValue(x)           == Value("string", x, <<>>, 0, "")
ErrorValue(chain, code)  == Value("error", "", chain, code, "")
IntValue(k)              == Value("int", "", <<>>, k, "")

\* slog.Any(key, v)
slogAny(key, v) ==
    Value("attr", key, IF v.type = "string" THEN <<v.str>> ELSE v.val, v.code, v.type)

\* the values the arguments are drawn from: the key "error", another key, an
\* error without a cause, an error wrapping it, an error wrapping that one, an
\* error with a code, and a value that is neither a string nor an error
NoCode     == 0
ErrBase    == ErrorValue(<<"base">>, NoCode)
ErrWrapped == ErrorValue(<<"wrapped", "base">>, NoCode)
ErrOther   == ErrorValue(<<"outer", "middle", "inner">>, NoCode)
ErrCoded   == ErrorValue(<<"coded">>, 7)
ArgValues  == {StringValue("error"), StringValue("k"), ErrBase, ErrWrapped,
               ErrOther, ErrCoded, IntValue(1)}

ArgLists == UNION {[1 .. n -> ArgValues] : n \in 0 .. MaxArgs}

IsError(v) == v.type = "error"

\* errors.Unwrap: the set holding the cause, empty for nil
Unwrap(e) == IF Len(e.val) > 1 THEN {ErrorValue(Tail(e.val), NoCode)} ELSE {}

\* the loop of Error that follows errors.Unwrap to the last error of the chain
RECURSIVE RootOf(_)
RootOf(e) == IF Unwrap(e) = {} THEN e ELSE RootOf(CHOOSE u \in Unwrap(e) : TRUE)

\* findError: the loop over args from index i, with errFound (a set, empty for
\* nil) and remaining so far; the result is <<errFound, remaining>>
RECURSIVE findErrorFrom(_, _, _, _)
findErrorFrom(a, i, errFound, remaining) ==
    IF i > Len(a) THEN <<errFound, remaining>>
    ELSE IF /\ a[i].type = "string"
            /\ a[i].str = "error"
            /\ i + 1 <= Len(a)
            /\ IsError(a[i + 1])
         THEN findErrorFrom(a, i + 2, errFound, remaining \o <<a[i], a[i + 1]>>)
         ELSE IF IsError(a[i]) /\ errFound = {}
              THEN findErrorFrom(a, i + 1, {a[i]}, remaining)
              ELSE findErrorFrom(a, i + 1, errFound, Append(remaining, a[i]))

findError(a) == findErrorFrom(a, 1, {}, <<>>)

\* the key given to a value that has none
badKey == "!BADKEY"

\* argsToAttr with a key that does not take the value after it
argsToAttr_KeyOnly(a) ==
    CASE a[1].type = "string" ->
             IF Len(a) = 1
             THEN <<slogAny(badKey, a[1]), <<>> >>
             ELSE <<slogAny(a[1].str, a[2]), Tail(a)>>
      [] a[1].type = "attr" -> <<a[1], Tail(a)>>
      [] OTHER -> <<slogAny(badKey, a[1]), Tail(a)>>

\* argsToAttr: the first attribute of args and the arguments left
argsToAttr(a) ==
    CASE a[1].type = "string" ->
             IF Len(a) = 1
             THEN <<slogAny(badKey, a[1]), <<>> >>
             ELSE <<slogAny(a[1].str, a[2]), SubSeq(a, 3, Len(a))>>
      [] a[1].type = "attr" -> <<a[1], Tail(a)>>
      [] OTHER -> <<slogAny(badKey, a[1]), Tail(a)>>

\* argsToAttrSlice: the loop that turns args into attributes
RECURSIVE argsToAttrSlice(_)
argsToAttrSlice(a) ==
    IF a = <<>> THEN <<>>
    ELSE <<argsToAttr(a)[1]>> \o argsToAttrSlice(argsToAttr(a)[2])

\* the values the arguments of argsToAttrSlice are drawn from: two strings,
\* two values that are neither a string nor a slog.Attr, and a slog.Attr
Descriptor    == slogAny("pre", IntValue(2))
PairingValues == {StringValue("k"), StringValue("error"), IntValue(1), ErrBase,
                  Descriptor}

PairingLists == UNION {[1 .. n -> PairingValues] : n \in 0 .. MaxArgs}

\* one iteration of the loop of argsToAttrSlice:
\* attr, args = argsToAttr(args); attrs = append(attrs, attr)
argsToAttrLoop ==
    /\ converting.on
    /\ Len(converting.rest) > 0
    /\ converting' = [converting EXCEPT
                         !.rest = argsToAttr(converting.rest)[2],
                         !.attrs = Append(@, argsToAttr(converting.rest)[1])]
    /\ UNCHANGED <<nInst, name, level, loggerType, addSource, root, loggers,
                   focused, focusMap, logger, mu, pc, op, last, returned, exited,
                   fhist, nOps, given, args, forwarded>>

\* getStackTrace: at least one frame is always written
getStackTrace == StringValue("frames")

\* Error: the arguments it hands to c.logger.Log
ErrorDargs(a) ==
    LET found == findError(a)[1]
        nargs == findError(a)[2]
    IN  IF found = {} THEN nargs
        ELSE LET err  == CHOOSE e \in found : TRUE
                 rt   == RootOf(err)
                 code == IF err.code # NoCode
                         THEN <<slogAny("error_code", IntValue(err.code))>> ELSE <<>>
                 rootAttr == IF rt # err THEN <<slogAny("root_error", rt)>> ELSE <<>>
             IN  nargs \o code \o rootAttr
                       \o <<slogAny("error", err), slogAny("stack", getStackTrace)>>

\* one call c.Error(msg, args...) on the root
ErrorCall ==
    /\ ~forwarded.called
    /\ forwarded' = [called |-> TRUE, dargs |-> ErrorDargs(args)]
    /\ UNCHANGED <<nInst, name, level, loggerType, addSource, root, loggers,
                   focused, focusMap, logger, mu, pc, op, last, returned, exited,
                   fhist, nOps, given, args, converting>>

\* ------------------------------------------------------------ With

\* the argument lists handed to With: none, and one key with its value
WithInputs == {<<>>, <<StringValue("k"), StringValue("v")>>}

\* an attribute as the chain keeps it: its key and its value's text
AttrPair(a) == <<a.str, IF a.val = <<>> THEN "" ELSE a.val[1]>>

AttrPairs(as) == [i \in DOMAIN as |-> AttrPair(as[i])]

\* for each argument list, the attributes argsToAttrSlice makes of it
WithAttrs == [a \in WithInputs |-> AttrPairs(argsToAttrSlice(a))]

\* With: no arguments, c is returned as it is; otherwise
\* c.logger = c.logger.With(argsToAttrSlice(args)...), which goes through
\* FocusFilterHandler.WithAttrs.  It takes no lock.
With(t, c, a) ==
    /\ CanStart(t, c)
    /\ IF a = <<>>
       THEN UNCHANGED <<logger, given>>
       ELSE LET as == WithAttrs[a] IN
            /\ logger' = [logger EXCEPT ![c] = FilterWithAttrs(@, as)]
            /\ given' = [given EXCEPT ![c] = @ \cup {as[i] : i \in DOMAIN as}]
    /\ nOps' = nOps + 1
    /\ last' = Returns("With", c, "done")
    /\ UNCHANGED <<nInst, name, level, loggerType, addSource, root, loggers,
                   focused, focusMap, mu, pc, op, returned, exited, fhist>>
    /\ UNCHANGED callVars

\* ------------------------------------------------------------ specification

Next ==
    \E t \in Threads :
        \/ \E c \in Inst, n \in Names : GetLoggerLock(t, c, n)
        \/ GetLoggerBody(t)
        \/ \E c \in Inst : FocusLock(t, c)
        \/ \E names \in FocusInputs : FocusBody(t, names)
        \/ \E c \in Inst : UnfocusLock(t, c)
        \/ UnfocusBody(t)
        \/ \E c \in Inst, l \in LevelInputs : WithLevel(t, c, l)
        \/ \E c \in Inst, ty \in TypeInputs : WithLoggerType(t, c, ty)
        \/ \E c \in Inst, a \in WithInputs : With(t, c, a)
        \/ \E c \in Inst : EmitStart(t, c)
        \/ \E kind \in EmitKinds : EmitEnabled(t, kind)
        \/ EmitHandle(t)

Spec == Init /\ [][Next]_vars

\* a single call of Error on a fresh root, for every list of arguments
InitError ==
    /\ NewLogger("", DefaultLogLevel, "")
    /\ args \in ArgLists
    /\ forwarded = NotCalled
    /\ converting = NotConverting

NextError == ErrorCall

SpecError == InitError /\ [][NextError]_vars

\* the inputs of the calls that take root.mu: an emit below the level, one
\* that is written and the one that exits; a Focus that permits a child and
\* one that permits none
CallKinds == {"Debug", "Info", "Fatal"}
CallFocus == {{}, {"a"}}

\* the steps that finish a call goroutine t has begun
Continue(t) ==
    \/ GetLoggerBody(t)
    \/ \E names \in CallFocus : FocusBody(t, names)
    \/ UnfocusBody(t)
    \/ \E kind \in CallKinds : EmitEnabled(t, kind)
    \/ EmitHandle(t)

\* the calls that take root.mu: GetLogger, Focus, Unfocus and the emits
NextCalls ==
    \E t \in Threads :
        \/ \E c \in Inst, n \in Names : GetLoggerLock(t, c, n)
        \/ GetLoggerBody(t)
        \/ \E c \in Inst : FocusLock(t, c)
        \/ \E names \in CallFocus : FocusBody(t, names)
        \/ \E c \in Inst : UnfocusLock(t, c)
        \/ UnfocusBody(t)
        \/ \E c \in Inst : EmitStart(t, c)
        \/ \E kind \in CallKinds : EmitEnabled(t, kind)
        \/ EmitHandle(t)

\* those calls under fair scheduling: a goroutine that can go on with its call
\* is eventually run
SpecFair == Init /\ [][NextCalls]_vars /\ \A t \in Threads : WF_vars(Continue(t))

\* a single run of argsToAttrSlice, for every list of arguments; the loop runs
\* on one goroutine and is not interrupted, so its iteration is always taken
InitArgs ==
    /\ NewLogger("", DefaultLogLevel, "")
    /\ args \in PairingLists
    /\ forwarded = NotCalled
    /\ converting = [on |-> TRUE, rest |-> args, attrs |-> <<>>]

NextArgs == argsToAttrLoop

SpecArgs == InitArgs /\ [][NextArgs]_vars /\ WF_vars(NextArgs)

\* ------------------------------------------------------------ properties

\* the focus state of the registry
FocusOn == focused[TheRoot]
Allowed == focusMap[TheRoot]

Named(c) == name[c] # ""

\* the call that has just returned was an emit
IsEmit(e) == e.status \in {"written", "dropped"}

\* the emit that has just returned passed the minimum rank of its chain
PassedSink(e) == IsEmit(e) /\ EmitRank(e.kind) >= e.lvl

\* the latest Focus or Unfocus call that has returned
LastFocus == fhist[Len(fhist)]

\* the children GetLogger has constructed for name n
Constructed(n) == {i \in Live \ {TheRoot} : name[i] = n}

\* C1  Memoization: under every interleaving of GetLogger calls on the root and
\* on children, at most one instance is constructed for a name, every call for
\* that name returns it, and it is the one registered under the name.
C1_Memoization ==
    \A n \in Names :
        /\ Cardinality(Constructed(n)) <= 1
        /\ Cardinality(returned[n]) <= 1
        /\ returned[n] \subseteq Constructed(n)
        /\ \A i \in returned[n] :
              n \in DOMAIN loggers[TheRoot] /\ loggers[TheRoot][n] = i

\* a GetLogger call on a child has just returned the instance an earlier call
\* constructed
C1_Witness ==
    /\ last.kind = "GetLogger"
    /\ last.status = "found"
    /\ last.c # TheRoot
    /\ \E n \in Names : returned[n] # {} /\ last.out = returned[n]

\* C2  Focus predicate for named loggers: a logger with a non-empty name is
\* permitted iff focus is disabled or its name is in the allowed set, and a
\* record of sufficient rank on it is written iff it is permitted.
C2_FocusPredicate ==
    /\ \A c \in Live :
          Named(c) => (isFocused(c) <=> (~FocusOn \/ name[c] \in Allowed))
    /\ (PassedSink(last) /\ Named(last.c))
          => (last.status = "written" <=> (~FocusOn \/ name[last.c] \in Allowed))

\* focus is on some logger's name, and a record of sufficient rank on a named
\* logger outside the allowed set has just been dropped
C2_Witness ==
    /\ PassedSink(last)
    /\ last.status = "dropped"
    /\ Named(last.c)
    /\ FocusOn
    /\ name[last.c] \notin Allowed
    /\ \E d \in Live : Named(d) /\ name[d] \in Allowed

\* C3  Root exemption: the unnamed root is always permitted by the focus
\* filter, and a record of sufficient rank emitted on it is written.
C3_RootExempt ==
    name[TheRoot] = "" =>
        /\ isFocused(TheRoot)
        /\ (PassedSink(last) /\ last.c = TheRoot) => last.status = "written"

\* C4  Focus replaces: after a Focus call has returned, focus is enabled and
\* the allowed set is exactly its arguments; after Focus(A) then Focus(B), a
\* logger named in A but not in B is not permitted.
C4_FocusReplaces ==
    (fhist # <<>> /\ LastFocus.kind = "Focus") =>
        /\ FocusOn
        /\ Allowed = LastFocus.names
        /\ (Len(fhist) = 2 /\ fhist[1].kind = "Focus") =>
              \A c \in Live :
                  name[c] \in fhist[1].names \ fhist[2].names => ~isFocused(c)

\* Focus(A) then Focus(B) have returned, and a logger is named in A, not in B
C4_Witness ==
    /\ Len(fhist) = 2
    /\ fhist[1].kind = "Focus"
    /\ fhist[2].kind = "Focus"
    /\ \E c \in Live : name[c] \in fhist[1].names \ fhist[2].names

\* C5  Unfocus restores: after an Unfocus call has returned, focus is disabled,
\* the allowed set is empty, every logger is permitted, and a record of
\* sufficient rank is written.
C5_UnfocusRestores ==
    (fhist # <<>> /\ LastFocus.kind = "Unfocus") =>
        /\ ~FocusOn
        /\ Allowed = {}
        /\ \A c \in Live : isFocused(c)
        /\ PassedSink(last) => last.status = "written"

\* Focus then Unfocus have returned, and a named logger that existed during
\* the Focus call and was outside its allowed set has just written a record
C5_Witness ==
    /\ Len(fhist) = 2
    /\ fhist[1].kind = "Focus"
    /\ fhist[2].kind = "Unfocus"
    /\ last.status = "written"
    /\ Named(last.c)
    /\ name[last.c] \notin fhist[1].names
    /\ last.c < fhist[1].n

\* the focus state that the Focus and Unfocus calls that have returned leave
HistFocusOn == fhist # <<>> /\ LastFocus.kind = "Focus"
HistAllowed == IF HistFocusOn THEN LastFocus.names ELSE {}

\* C6  Focus re-propagation: an emit is decided by the focus state that the
\* latest returned Focus or Unfocus call (on the root or on a child) left, never
\* by an earlier one, also on loggers that existed before the call: with focus
\* off every logger writes, with focus on a named logger writes exactly when
\* its name is among the names of that call.
C6_Repropagation ==
    PassedSink(last) =>
        /\ ~HistFocusOn => last.status = "written"
        /\ (HistFocusOn /\ Named(last.c))
              => (last.status = "written" <=> name[last.c] \in HistAllowed)

\* a Focus call on a child has returned, and the next record of a child that
\* existed before the call and is not in its arguments has been dropped
C6_Witness ==
    /\ HistFocusOn
    /\ LastFocus.child
    /\ PassedSink(last)
    /\ last.status = "dropped"
    /\ last.c # TheRoot
    /\ last.c < LastFocus.n
    /\ Named(last.c)
    /\ name[last.c] \notin LastFocus.names

\* C7  Level filtering: a record is written only if its rank is at least the
\* rank the logger's level resolved to when the emit was called, and is written
\* then if focus permits; at "warn", trace, debug and info are dropped and
\* warn, error and fatal are written.
C7_LevelFiltering ==
    IsEmit(last) =>
        /\ last.status = "written" => EmitRank(last.kind) >= last.min
        /\ (EmitRank(last.kind) >= last.min /\ isFocused(last.c))
              => last.status = "written"
        /\ last.min = LevelWarn =>
              /\ last.kind \in {"Trace", "Debug", "Info"} => last.status = "dropped"
              /\ (last.kind \in {"Warn", "Error", "Fatal"} /\ isFocused(last.c))
                    => last.status = "written"

\* a logger configured at warn, permitted by focus, has just dropped an info record
C7_Witness ==
    /\ last.status = "dropped"
    /\ last.kind = "Info"
    /\ last.min = LevelWarn
    /\ isFocused(last.c)

\* C8  Level/format locality: a step in which WithLevel or WithLoggerType runs
\* on c (and records its return) leaves the level, format and chain of every
\* other logger, and the focus state and the registry, as they were.
C8_Locality ==
    [][\A c \in Inst :
          (/\ last'.kind \in {"WithLevel", "WithLoggerType"}
           /\ last'.c = c
           /\ \E t \in Threads : \/ \E l \in LevelInputs : WithLevel(t, c, l)
                                  \/ \E ty \in TypeInputs : WithLoggerType(t, c, ty))
          => /\ \A i \in Inst \ {c} : /\ level'[i] = level[i]
                                      /\ loggerType'[i] = loggerType[i]
                                      /\ logger'[i] = logger[i]
             /\ focused' = focused
             /\ focusMap' = focusMap
             /\ loggers' = loggers]_vars

\* WithLevel has just returned on a child whose level now differs from its
\* root's and from a sibling's
C8_Witness ==
    /\ last.kind = "WithLevel"
    /\ last.c # TheRoot
    /\ level[last.c] # level[TheRoot]
    /\ logger[last.c].lvl # logger[TheRoot].lvl
    /\ \E d \in Live \ {TheRoot, last.c} : level[d] # level[last.c]

\* C9  Inheritance at creation: the logger GetLogger constructs has the
\* caller's level, format and source flag as they are when it is constructed,
\* the caller's root, and is registered in that root's map under its name.
C9_Inheritance ==
    (last.kind = "GetLogger" /\ last.status = "created") =>
        \A o \in last.out :
            /\ level[o] = level[last.c]
            /\ loggerType[o] = loggerType[last.c]
            /\ addSource[o] = addSource[last.c]
            /\ logger[o].lvl = getLevel(level[last.c])
            /\ logger[o].kind = NewSinkKind(loggerType[last.c])
            /\ root[o] = root[last.c]
            /\ name[o] \in DOMAIN loggers[root[last.c]]
            /\ loggers[root[last.c]][name[o]] = o

\* GetLogger on a child whose level differs from the root's has just
\* constructed a logger
C9_Witness ==
    /\ last.kind = "GetLogger"
    /\ last.status = "created"
    /\ last.c # TheRoot
    /\ getLevel(level[last.c]) # getLevel(level[TheRoot])

\* the level names getLevel knows
LevelNames == {Error, Warn, Info, Debug, Trace}

Unrecognized(l) == ToUpper(l) \notin LevelNames

\* C10  Level fallback: a level string that is a level name in any case
\* resolves to that name's rank; any other string resolves to the info rank, so
\* the chain enables exactly the ranks a chain configured with "INFO" enables.
C10_LevelFallback ==
    \A c \in Live :
        LET u      == ToUpper(level[c])
            asInfo == BuildChain(c, name[c], Info, loggerType[c], addSource[c])
        IN  /\ u \in LevelNames => logger[c].lvl = getLevel(u)
            /\ u \notin LevelNames =>
                  /\ Unrecognized(level[c])
                  /\ logger[c].lvl = LevelInfo
                  /\ \A k \in EmitKinds :
                        SinkEnabled(logger[c], EmitRank(k))
                            <=> SinkEnabled(asInfo, EmitRank(k))

\* a logger configured with an unrecognized level string has written an info
\* record
C10_Witness ==
    /\ last.status = "written"
    /\ last.kind = "Info"
    /\ Unrecognized(level[last.c])
    /\ last.min = LevelInfo

\* C13  Fatal always terminates: a Fatal call that has made its delivery
\* attempt (the record written exactly when an Error record would be: the
\* error rank passes the chain's minimum and focus permits the logger,
\* otherwise dropped) has terminated the process, and once the process has
\* terminated no operation takes a step.
C13_FatalTerminates ==
    [][/\ exited => UNCHANGED vars
       /\ (IsEmit(last') /\ last'.kind = "Fatal") =>
             /\ exited'
             /\ last'.status = "written" <=>
                   /\ EmitRank("Error") >= last'.lvl
                   /\ (focused'[root'[last'.c]] =>
                          name'[last'.c] \in focusMap'[root'[last'.c]])]_vars

\* the process has terminated after a Fatal call whose record the focus filter
\* dropped, while another goroutine was in the middle of an operation
C13_Witness ==
    /\ exited
    /\ last.kind = "Fatal"
    /\ last.status = "dropped"
    /\ PassedSink(last)
    /\ \E t \in Threads : pc[t] # "idle"

\* the loggers of the registry: the root and the loggers in its map
Registry == {TheRoot} \cup Registered(TheRoot)

\* C14  Name uniqueness: no two distinct loggers of the registry (the root and
\* its registered children) carry the same name, and only the root carries the
\* empty name.
C14_NameUniqueness ==
    /\ \A i, j \in Registry : name[i] = name[j] => i = j
    /\ \A i \in Registry : name[i] = "" => i = TheRoot

\* C15  With persistence: a record written by an emit that was called after
\* With returned on its logger carries every attribute With was given.
C15_WithPersistence ==
    last.status = "written" =>
        \A a \in last.given : \E i \in DOMAIN last.attrs : last.attrs[i] = a

\* goroutine u is in the middle of an emit on c: it has read c.logger, holding
\* no lock, and has not returned
Emitting(u, c) == pc[u] \in {"enabled", "handle"} /\ op[u].c = c

\* goroutine u is inside Focus or Unfocus on the registry of c: it holds the
\* root's lock and is about to write the chains of the registry
Refocusing(u, c) ==
    pc[u] \in {"focus", "unfocus"} /\ getRoot(op[u].c) = getRoot(c)

\* C16  Lock discipline: operations that run concurrently do not conflict on a
\* logger's chain: no step writes c.logger while an emit on c is in progress,
\* and no emit reads c.logger while a Focus or Unfocus that is to rewrite it is
\* in progress.
C16_LockDiscipline ==
    [][\A c \in Live :
          /\ logger'[c] # logger[c] => \A u \in Threads : ~Emitting(u, c)
          /\ (\E t \in Threads : EmitStart(t, c))
                => \A u \in Threads : ~Refocusing(u, c)]_vars

\* C17  Focus-filter handle: a call of Handle on a logger the focus predicate
\* rejects returns nil and does not call the sink's Handle; on a logger it
\* permits, it calls the sink's Handle exactly once and returns what that
\* returned, a write error included.
C17_FilterHandle ==
    (IsEmit(last) /\ last.handle.called) =>
        IF isFocused(last.c)
        THEN /\ last.handle.sunk = 1
             /\ last.handle.res \in SinkResults
             /\ last.handle.ret = last.handle.res
        ELSE /\ last.handle.sunk = 0
             /\ last.handle.ret = "nil"
             /\ last.status = "dropped"

\* Handle has been called on a logger that a Focus call, made after Enabled
\* had answered true, excludes: it returned nil without calling the sink
C17_Witness ==
    /\ last.handle.called
    /\ ~isFocused(last.c)
    /\ last.handle.ret = "nil"
    /\ last.handle.sunk = 0

\* C18  Focus-filter enabled: for every logger's chain and every rank, Enabled
\* is (the sink enables the rank) and (focus permits the logger), so it is
\* false whenever the sink rejects the rank; an emit goes on to Handle only
\* with a rank the sink enables, and stops at Enabled exactly when the sink
\* rejects the rank or focus rejects the logger.
C18_FilterEnabled ==
    /\ \A c \in Live, k \in EmitKinds :
          /\ FilterEnabled(logger[c], EmitRank(k))
                <=> (SinkEnabled(logger[c], EmitRank(k)) /\ isFocused(c))
          /\ ~SinkEnabled(logger[c], EmitRank(k))
                => ~FilterEnabled(logger[c], EmitRank(k))
    /\ IsEmit(last) =>
          /\ last.handle.called => PassedSink(last)
          /\ ~last.handle.called => (~PassedSink(last) \/ ~isFocused(last.c))

\* an emit whose rank the sink rejects has stopped at Enabled on a logger that
\* focus permits while focus is on
C18_Witness ==
    /\ IsEmit(last)
    /\ ~last.handle.called
    /\ ~PassedSink(last)
    /\ FocusOn
    /\ isFocused(last.c)

\* C19  GetLogger on a registered name changes nothing: the step in which
\* GetLogger(n) returns, n being in the registry map, returns the stored
\* instance and leaves the map, the focus state and every logger's name,
\* level, format, source flag and chain as they were; no logger is constructed.
C19_GetLoggerFrame ==
    [][\A t \in Threads :
          (/\ pc[t] = "getlogger"
           /\ op[t].name \in DOMAIN loggers[root[op[t].c]]
           /\ GetLoggerBody(t))
          => /\ last'.out = {loggers[root[op[t].c]][op[t].name]}
             /\ UNCHANGED <<nInst, name, level, loggerType, addSource, root,
                            loggers, focused, focusMap, logger>>]_vars

\* GetLogger has just returned a stored instance to a caller whose level
\* differs from that instance's
C19_Witness ==
    /\ last.kind = "GetLogger"
    /\ last.status = "found"
    /\ \E o \in last.out : level[o] # level[last.c]

\* the attributes with key "logger" in a sequence of attributes
LoggerAttrs(as) == {as[i] : i \in {j \in DOMAIN as : as[j][1] = "logger"}}

\* the name attribution a chain or record of logger c is to carry
Attribution(c) == IF Named(c) THEN {<<"logger", name[c]>>} ELSE {}

\* C20  Name attribution: the chain of every logger, as built at creation or
\* rebuilt by WithLevel, WithLoggerType, Focus or Unfocus, carries logger=<name>
\* exactly when the logger is named and filters by that same logger; every
\* record written carries logger=<name> of its logger if it is named and no
\* logger attribute if it is not.
C20_NameAttribution ==
    /\ \A c \in Live : /\ LoggerAttrs(logger[c].attrs) = Attribution(c)
                       /\ logger[c].owner = c
    /\ last.status = "written" => LoggerAttrs(last.attrs) = Attribution(last.c)

\* a named child that existed before the latest Focus call, which rebuilt its
\* chain, has written a record
C20_Witness ==
    /\ last.status = "written"
    /\ Named(last.c)
    /\ last.c # TheRoot
    /\ HistFocusOn
    /\ last.c < LastFocus.n
    /\ <<"logger", name[last.c]>> \in LoggerAttrs(last.attrs)

\* ------------------------------------------------------------ Error: properties

\* the fields of the record that the call of Error forwarded
Fields == argsToAttrSlice(forwarded.dargs)

FieldsKeyed(key) == {i \in DOMAIN Fields : Fields[i].str = key}

\* the positions of the error values among the arguments
ErrorsAt(a) == {i \in DOMAIN a : IsError(a[i])}

\* the positions of the error values that follow the string "error"
KeyedErrorsAt(a) ==
    {i \in ErrorsAt(a) : i > 1 /\ a[i - 1].type = "string" /\ a[i - 1].str = "error"}

Least(S) == CHOOSE i \in S : \A j \in S : i <= j

\* the error an emission is to extract: the first one keyed "error" if there
\* is one, else the first error value, else none
ExpectedError(a) ==
    IF KeyedErrorsAt(a) # {} THEN {a[Least(KeyedErrorsAt(a))]}
    ELSE IF ErrorsAt(a) # {} THEN {a[Least(ErrorsAt(a))]}
    ELSE {}

\* the record carries the enrichment of error e: the error itself, a stack and,
\* exactly when e wraps a cause, the last error of its chain as root cause
Enriched(e) ==
    /\ \E i \in FieldsKeyed("error") : Fields[i].of = "error" /\ Fields[i].val = e.val
    /\ \E i \in FieldsKeyed("stack") : Fields[i].val # <<>>
    /\ Len(e.val) >= 2 =>
          \E i \in FieldsKeyed("root_error") :
              Fields[i].val = <<e.val[Len(e.val)]>>
    /\ Len(e.val) = 1 => FieldsKeyed("root_error") = {}

\* C11  Error enrichment: when the arguments of Error contain an error value,
\* the forwarded record carries the error, a stack and (chain depth >= 2 only)
\* the root cause; when they contain none, the record has the fields of the
\* arguments and no derived field.
C11_ErrorEnrichment ==
    forwarded.called =>
        IF ErrorsAt(args) = {}
        THEN Fields = argsToAttrSlice(args)
        ELSE \E e \in ExpectedError(args) : Enriched(e)

\* C12  Error selection: the error Error extracts and enriches is the first one
\* keyed "error" if there is one, else the first error value.
C12_ErrorSelection ==
    forwarded.called =>
        {forwarded.dargs[i] : i \in {j \in DOMAIN forwarded.dargs :
                                        /\ forwarded.dargs[j].type = "attr"
                                        /\ forwarded.dargs[j].str = "error"}}
            = {slogAny("error", e) : e \in ExpectedError(args)}

\* the enrichment of Error for arguments that hold no string: the first error
\* value is extracted and enriched
ErrorEnrichment_NoKeys ==
    (forwarded.called /\ \A i \in DOMAIN args : args[i].type # "string") =>
        /\ findError(args)[1] = ExpectedError(args)
        /\ IF ErrorsAt(args) = {}
           THEN Fields = argsToAttrSlice(args)
           ELSE \E e \in ExpectedError(args) : Enriched(e)

\* ---------------------------------------------------------------------------
\* Argument pairing: properties
\* ---------------------------------------------------------------------------

\* the number of arguments one iteration takes off the list
Consumed == Len(converting.rest) - Len(converting'.rest)

\* the attribute one iteration appends
Appended == converting'.attrs[Len(converting'.attrs)]

\* one iteration takes arguments off the front of the list, at least one, and
\* appends one attribute: a string followed by a value gives the field named
\* by the string and takes both, a slog.Attr passes unchanged and takes one, a
\* string in last position and any other value give a "!BADKEY" field and
\* take one
PairingStep ==
    (converting.on /\ converting' # converting) =>
        LET r == converting.rest IN
        /\ Consumed \in 1 .. Len(r)
        /\ converting'.rest = SubSeq(r, Consumed + 1, Len(r))
        /\ Len(converting'.attrs) = Len(converting.attrs) + 1
        /\ SubSeq(converting'.attrs, 1, Len(converting.attrs)) = converting.attrs
        /\ CASE r[1].type = "string" /\ Len(r) >= 2 ->
                    /\ Consumed = 2
                    /\ Appended = slogAny(r[1].str, r[2])
             [] r[1].type = "attr" ->
                    /\ Consumed = 1
                    /\ Appended = r[1]
             [] OTHER ->
                    /\ Consumed = 1
                    /\ Appended = slogAny("!BADKEY", r[1])

\* the arguments left are always the tail of the argument list: nothing is
\* skipped, nothing is taken twice
LeftToRight ==
    converting.on =>
        /\ Len(converting.rest) <= Len(args)
        /\ converting.rest =
               SubSeq(args, Len(args) - Len(converting.rest) + 1, Len(args))

\* the run is over: no argument is left, and the attributes are the result of
\* argsToAttrSlice
Converted ==
    /\ converting.on
    /\ converting.rest = <<>>
    /\ converting.attrs = argsToAttrSlice(args)

\* C21  Argument pairing: argsToAttrSlice takes the arguments left to right,
\* each exactly once, by the pairing rules (key and value: one named field,
\* two taken; slog.Attr: unchanged, one taken; trailing string or other value:
\* a "!BADKEY" field, one taken), and ends for every finite list.
C21_ArgumentPairing ==
    /\ [][PairingStep]_vars
    /\ []LeftToRight
    /\ <>[]Converted

\* a finished run that paired a key with its value and then met a string in
\* last position
C21_Witness ==
    /\ Converted
    /\ Len(args) = 3
    /\ args[1].type = "string"
    /\ args[3].type = "string"
    /\ converting.attrs = <<slogAny(args[1].str, args[2]), slogAny(badKey, args[3])>>

\* ---------------------------------------------------------------------------
\* Focus state: properties
\* ---------------------------------------------------------------------------

\* C23  Focus-state invariant: whenever focus is disabled the allowed set is
\* empty, and so a non-empty allowed set implies focus is enabled; this holds
\* for the registry (the fields of the root) and for every logger's own fields.
C23_FocusStateInvariant ==
    /\ ~FocusOn => Allowed = {}
    /\ Allowed # {} => FocusOn
    /\ \A c \in Live : ~focused[c] => focusMap[c] = {}

\* Focus with a non-empty list of names, then Unfocus, have returned, and both
\* the flag and the set are cleared
C23_Witness ==
    /\ Len(fhist) = 2
    /\ fhist[1].kind = "Focus"
    /\ fhist[1].names # {}
    /\ fhist[2].kind = "Unfocus"
    /\ \A t \in Threads : pc[t] = "idle"
    /\ ~FocusOn
    /\ Allowed = {}

\* ---------------------------------------------------------------------------
\* No deadlock: properties
\* ---------------------------------------------------------------------------

\* the goroutine is inside a section that holds root.mu exclusively
Holding(t) == pc[t] \in {"getlogger", "focus", "unfocus"}

\* the locks goroutine t holds
Held(t) == {r \in Inst : mu[r] = t}

\* no goroutine asks for a lock it holds: inside Focus, Unfocus and GetLogger
\* exactly the lock of the registry is held and the rebuild takes none; a
\* goroutine that is idle or emitting, and so about to ask for the lock, holds
\* none
NoReentry ==
    \A t \in Threads :
        IF Holding(t)
        THEN /\ Held(t) = {getRoot(op[t].c)}
             /\ RebuildLocks(getRoot(op[t].c)) \cap Held(t) = {}
        ELSE Held(t) = {}

\* goroutine t is in no call, or Fatal has ended the process
Returned(t) == pc[t] = "idle" \/ exited

\* the lock of r is free for a caller waiting for it, or the process has ended
Released(r) == mu[r] = NoThread \/ exited

\* C22  No deadlock: under fair scheduling every GetLogger, Focus, Unfocus and
\* emit call that has begun returns (or the process exits), every lock taken is
\* released, and no operation asks for the root lock while holding it, the
\* chain rebuilds made under the exclusive lock included.
C22_NoDeadlock ==
    /\ []NoReentry
    /\ \A t \in Threads : []<>Returned(t)
    /\ \A r \in Inst : []<>Released(r)

\* one goroutine is rebuilding the chains under the exclusive lock while the
\* other is in an emit that needs the same lock to go on
C22_Witness ==
    /\ pc["t1"] \in {"focus", "unfocus"}
    /\ pc["t2"] = "enabled"
    /\ getRoot(op["t2"].c) = getRoot(op["t1"].c)
    /\ mu[getRoot(op["t1"].c)] = "t1"
    /\ Cardinality(Rebuilt(getRoot(op["t1"].c))) >= 2

====
